---- MODULE Spec2Model ----
(***************************************************************************)
(* Model of the Superstore dashboards (src/dashboard_simple.py and         *)
(* src/dashboard.py): the CSV loader load_data, the sidebar selections,    *)
(* the filter step of main and the computations that follow it.            *)
(*                                                                         *)
(* Representation.  A cell of a table is a tagged record [t, v, s]:        *)
(*   t = "num"   a finite number v (in a raw file: text that parses as v)  *)
(*   t = "inf"   +infinity,  t = "ninf"  -infinity                         *)
(*   t = "nan"   a missing value (empty CSV cell, NaN, NaT)                *)
(*   t = "str"   text s that is no number and no date                     *)
(*   t = "date"  a date, v = days since 2016-01-01                         *)
(* A column read by pandas.read_csv has dtype object exactly when one of   *)
(* its cells is text that is no number; then every cell of the column is   *)
(* a str object until pd.to_numeric converts it.                           *)
(* Profit_Margin is a percentage rounded to two decimals; it is held in    *)
(* hundredths of a percent (Scale = 100), so that 12.34% is Num(1234).     *)
(***************************************************************************)
EXTENDS Integers, Sequences, FiniteSets, TLC

VARIABLES fs, cache, pc, err, errCols, df, sel, profit_filter, filtered_df,
          total_loss, model_df, page, sim

vars == <<fs, cache, pc, err, errCols, df, sel, profit_filter, filtered_df,
          total_loss, model_df, page, sim>>

----------------------------------------------------------------------------
(* Bounds of the model *)

\* rows of a file of the dashboards
MaxRows == 2

\* rows of a file of products
MaxProducts == 12

\* rows of a file of discounts
MaxBinRows == 6

----------------------------------------------------------------------------
(* Cells *)

Num(n) == [t |-> "num", v |-> n, s |-> ""]
Str(x) == [t |-> "str", v |-> 0, s |-> x]
Date(d) == [t |-> "date", v |-> d, s |-> ""]
NaN == [t |-> "nan", v |-> 0, s |-> ""]
Inf == [t |-> "inf", v |-> 0, s |-> ""]
NInf == [t |-> "ninf", v |-> 0, s |-> ""]

notna(c) == c.t # "nan"

IsNumber(c) == c.t \in {"num", "inf", "ninf"}

IsFinite(c) == c.t = "num"

\* float comparisons of a cell with 0 (NaN compares false)
GtZero(c) == (c.t = "num" /\ c.v > 0) \/ c.t = "inf"
LtZero(c) == (c.t = "num" /\ c.v < 0) \/ c.t = "ninf"

----------------------------------------------------------------------------
(* Tables: [cols: set of column names,                                     *)
(*          obj:  the columns of dtype object,                             *)
(*          rows: sequence of [i: index label, c: column name -> cell]]    *)

NoTable == [cols |-> {}, obj |-> {}, rows |-> <<>>]

Len0(t) == Len(t.rows)

RECURSIVE Pick(_, _, _)
\* the rows, from position k on, at which the boolean sequence m holds
Pick(rows, m, k) ==
  IF k > Len(rows) THEN <<>>
  ELSE (IF m[k] THEN <<rows[k]>> ELSE <<>>) \o Pick(rows, m, k + 1)

\* boolean-mask selection df[m], m aligned with the rows: keeps the columns,
\* the index labels and the order of the rows
Mask(t, m) == [cols |-> t.cols, obj |-> t.obj, rows |-> Pick(t.rows, m, 1)]

\* df[col] = vals, vals aligned with the rows: adds or replaces one column,
\* of a dtype that is not object
Assign(t, col, vals) ==
  [cols |-> t.cols \cup {col},
   obj |-> t.obj \ {col},
   rows |-> [k \in 1..Len(t.rows) |->
               [i |-> t.rows[k].i,
                c |-> [x \in (DOMAIN t.rows[k].c) \cup {col} |->
                         IF x = col THEN vals[k] ELSE t.rows[k].c[x]]]]]

IsObject(t, col) == col \in t.obj

----------------------------------------------------------------------------
(* load_data of dashboard_simple.py *)

file_options == <<"Sample - Superstore.csv", "Superstore.csv">>

required_columns == <<"Order Date", "Sales", "Profit", "Region", "Category">>

numeric_columns == <<"Sales", "Profit", "Quantity", "Discount">>

CalendarColumns == {"Year", "Month", "Quarter", "Weekday", "YearMonth"}

DerivedColumns == CalendarColumns \cup {"Shipping_Days", "Profit_Margin"}

ClipLo == -1000
ClipHi == 1000
Scale == 100

Range(q) == {q[k] : k \in DOMAIN q}

\* A file of the file system is Absent (FileNotFoundError, or bytes the
\* encoding rejects), Garbage (pd.read_csv raises another error, e.g. on an
\* empty file) or a CSV content [cols, rows].
Absent == [kind |-> "absent", cols |-> {}, rows |-> <<>>]
Garbage == [kind |-> "garbage", cols |-> {}, rows |-> <<>>]
Csv(cols, rows) == [kind |-> "csv", cols |-> cols, rows |-> rows]

\* lines 29-35: the first candidate that pd.read_csv does not reject with
\* FileNotFoundError/UnicodeDecodeError; 0 when there is none
FirstReadable(f) ==
  IF f[file_options[1]].kind # "absent" THEN 1
  ELSE IF f[file_options[2]].kind # "absent" THEN 2
  ELSE 0

\* pd.read_csv: the table of a CSV content, with a fresh RangeIndex; a
\* column is parsed to floats unless one of its cells is text that is no
\* number, and then all its cells stay str objects
read_csv(content) ==
  [cols |-> content.cols,
   obj |-> {x \in content.cols :
              \E k \in 1..Len(content.rows) : content.rows[k][x].t \in {"str", "date"}},
   rows |-> [k \in 1..Len(content.rows) |-> [i |-> k - 1, c |-> content.rows[k]]]]

\* variant of missing_columns that does not look for the last required column
missing_columns_short(t) ==
  SelectSeq(SubSeq(required_columns, 1, Len(required_columns) - 1),
            LAMBDA col : col \notin t.cols)

\* line 48
missing_columns(t) ==
  SelectSeq(required_columns, LAMBDA col : col \notin t.cols)

\* pd.to_datetime(errors='coerce') of one cell
to_datetime(c) == IF c.t = "date" THEN c ELSE NaN

\* .dt.year of a date counted in days from 2016-01-01 (2016 has 366 days)
YearOf(d) == IF d < 366 THEN 2016 ELSE IF d < 731 THEN 2017 ELSE 2018

\* lines 56-60
ConvertDates(t) ==
  LET t1 == Assign(t, "Order Date", [j \in 1..Len0(t) |-> to_datetime(t.rows[j].c["Order Date"])])
  IN  IF "Ship Date" \in t1.cols
      THEN Assign(t1, "Ship Date", [j \in 1..Len0(t1) |-> to_datetime(t1.rows[j].c["Ship Date"])])
      ELSE Assign(t1, "Ship Date", [j \in 1..Len0(t1) |-> t1.rows[j].c["Order Date"]])

\* variant of DropInvalidDates that drops the rows without a Ship Date
DropInvalidShipDates(t) == Mask(t, [j \in 1..Len0(t) |-> notna(t.rows[j].c["Ship Date"])])

\* line 63
DropInvalidDates(t) == Mask(t, [j \in 1..Len0(t) |-> notna(t.rows[j].c["Order Date"])])

\* lines 73-74: (Ship Date - Order Date).dt.days, NaN replaced by 0
ShippingDays(r) ==
  IF notna(r.c["Ship Date"]) /\ notna(r.c["Order Date"])
  THEN Num(r.c["Ship Date"].v - r.c["Order Date"].v)
  ELSE Num(0)

\* lines 66-74.  Month, Quarter, Weekday and YearMonth are functions of the
\* Order Date alone; the model keeps the date itself in their cells.
DeriveCalendar(t) ==
  LET t1 == Assign(t, "Year", [j \in 1..Len0(t) |-> Num(YearOf(t.rows[j].c["Order Date"].v))])
      t2 == Assign(t1, "Month", [j \in 1..Len0(t1) |-> t1.rows[j].c["Order Date"]])
      t3 == Assign(t2, "Quarter", [j \in 1..Len0(t2) |-> t2.rows[j].c["Order Date"]])
      t4 == Assign(t3, "Weekday", [j \in 1..Len0(t3) |-> t3.rows[j].c["Order Date"]])
      t5 == Assign(t4, "YearMonth", [j \in 1..Len0(t4) |-> t4.rows[j].c["Order Date"]])
  IN  Assign(t5, "Shipping_Days", [j \in 1..Len0(t5) |-> ShippingDays(t5.rows[j])])

\* lines 54-74
DateFeatures(t) == DeriveCalendar(DropInvalidDates(ConvertDates(t)))

\* a / b rounded half to even, b # 0
RoundDiv(a, b) ==
  LET n == IF b < 0 THEN -a ELSE a
      d == IF b < 0 THEN -b ELSE b
      q == n \div d
      r == n - q * d
  IN  IF 2 * r < d THEN q
      ELSE IF 2 * r > d THEN q + 1
      ELSE IF q % 2 = 0 THEN q ELSE q + 1

\* line 84: (Sales != 0) & Sales.notna() & Profit.notna(); in a column of
\* dtype object every cell differs from the number 0
valid_sales_mask(t, r) ==
  /\ (IsObject(t, "Sales") \/ ~(r.c["Sales"].t = "num" /\ r.c["Sales"].v = 0))
  /\ notna(r.c["Sales"])
  /\ notna(r.c["Profit"])

\* lines 86-88: (Profit / Sales * 100).round(2) in IEEE arithmetic, in
\* hundredths of a percent
MarginOf(p, sl) ==
  IF p.t = "num" /\ sl.t = "num" THEN Num(RoundDiv(p.v * 100 * Scale, sl.v))
  ELSE IF p.t = "num" THEN Num(0)
  ELSE IF sl.t \in {"inf", "ninf"} THEN NaN
  ELSE IF (p.t = "inf") = (sl.v > 0) THEN Inf ELSE NInf

\* line 91
ReplaceInf(c) == IF c.t \in {"inf", "ninf"} THEN Num(0) ELSE c

\* line 92: clip leaves NaN as it is
Clip(c) ==
  IF c.t = "num"
  THEN Num(IF c.v < ClipLo * Scale THEN ClipLo * Scale
           ELSE IF c.v > ClipHi * Scale THEN ClipHi * Scale ELSE c.v)
  ELSE c

\* line 87 raises TypeError when it divides str objects: some row is under
\* the mask and Sales or Profit has dtype object
MarginRaises(t) ==
  /\ \E k \in 1..Len(t.rows) : valid_sales_mask(t, t.rows[k])
  /\ (IsObject(t, "Sales") \/ IsObject(t, "Profit"))

\* lines 80-96
ProfitMargin(t) ==
  IF MarginRaises(t)
  THEN Assign(t, "Profit_Margin", [j \in 1..Len0(t) |-> Num(0)])
  ELSE Assign(t, "Profit_Margin",
              [j \in 1..Len0(t) |-> IF valid_sales_mask(t, t.rows[j])
                         THEN Clip(ReplaceInf(MarginOf(t.rows[j].c["Profit"], t.rows[j].c["Sales"])))
                         ELSE Num(0)])

\* line 102: pd.to_numeric(errors='coerce').fillna(0) of one cell
to_numeric(c) == IF IsNumber(c) THEN c ELSE NaN
fillna0(c) == IF notna(c) THEN c ELSE Num(0)

\* variant of CoerceCell without fillna(0)
CoerceCellNoFill(c) == to_numeric(c)

CoerceCell(c) == fillna0(to_numeric(c))

RECURSIVE CoerceFrom(_, _)
\* lines 99-102: the loop over numeric_columns, from position k on
CoerceFrom(t, k) ==
  IF k > Len(numeric_columns) THEN t
  ELSE LET col == numeric_columns[k]
       IN  IF col \in t.cols
           THEN CoerceFrom(Assign(t, col, [j \in 1..Len0(t) |-> CoerceCell(t.rows[j].c[col])]), k + 1)
           ELSE CoerceFrom(t, k + 1)

CoerceNumeric(t) == CoerceFrom(t, 1)

----------------------------------------------------------------------------
(* main of dashboard_simple.py: sidebar, filter step, loss summary *)

Dims == <<"Year", "Region", "Category", "Segment", "Ship Mode">>

ProfitModes == {"all", "profit", "loss"}

NoSel == [d \in Range(Dims) |-> {}]

Selection(sy, sr, sc, sg, sm) ==
  [d \in Range(Dims) |->
     CASE d = "Year" -> sy
       [] d = "Region" -> sr
       [] d = "Category" -> sc
       [] d = "Segment" -> sg
       [] OTHER -> sm]

\* lines 189, 200, 211, 223, 237: df[col].dropna().unique(); the optional
\* columns Segment and Ship Mode offer nothing when the column is absent
Options(t, d) ==
  IF d \in t.cols
  THEN {t.rows[k].c[d] : k \in {j \in 1..Len(t.rows) : notna(t.rows[j].c[d])}}
  ELSE {}

\* variant of isin that loses the filtered column
isinDropColumn(t, d, selected) ==
  [cols |-> t.cols \ {d}, obj |-> t.obj \ {d},
   rows |-> SelectSeq(t.rows, LAMBDA r : r.c[d] \in selected)]

\* df[df[d].isin(selected)]
isin(t, d, selected) == Mask(t, [j \in 1..Len0(t) |-> t.rows[j].c[d] \in selected])

\* lines 261-272: one "if selected: filtered_df = filtered_df[...isin...]"
FilterDim(t, d, selected) ==
  IF selected # {} /\ d \in t.cols THEN isin(t, d, selected) ELSE t

\* variant of FilterProfit whose profit-only mode keeps Profit = 0
FilterProfitGe(t, mode) ==
  IF mode = "profit" THEN Mask(t, [j \in 1..Len0(t) |-> ~LtZero(t.rows[j].c["Profit"])])
  ELSE IF mode = "loss" THEN Mask(t, [j \in 1..Len0(t) |-> LtZero(t.rows[j].c["Profit"])])
  ELSE t

\* lines 276-279
FilterProfit(t, mode) ==
  IF mode = "profit" THEN Mask(t, [j \in 1..Len0(t) |-> GtZero(t.rows[j].c["Profit"])])
  ELSE IF mode = "loss" THEN Mask(t, [j \in 1..Len0(t) |-> LtZero(t.rows[j].c["Profit"])])
  ELSE t

\* lines 258-279
FilterView(t, s, mode) ==
  LET f0 == t
      f1 == FilterDim(f0, "Year", s["Year"])
      f2 == FilterDim(f1, "Region", s["Region"])
      f3 == FilterDim(f2, "Category", s["Category"])
      f4 == FilterDim(f3, "Segment", s["Segment"])
      f5 == FilterDim(f4, "Ship Mode", s["Ship Mode"])
  IN  FilterProfit(f5, mode)

\* float addition
FAdd(a, b) ==
  IF a.t = "nan" \/ b.t = "nan" THEN NaN
  ELSE IF a.t = "num" /\ b.t = "num" THEN Num(a.v + b.v)
  ELSE IF a.t = "num" THEN b
  ELSE IF b.t = "num" THEN a
  ELSE IF a.t = b.t THEN a ELSE NaN

\* variant of FAbs that keeps the sign
FSigned(a) == a

\* abs() of a float
FAbs(a) ==
  IF a.t = "num" THEN Num(IF a.v < 0 THEN -a.v ELSE a.v)
  ELSE IF a.t = "ninf" THEN Inf ELSE a

RECURSIVE SumFrom(_, _, _)
\* Series.sum() of column col (NaN skipped), from row k on
SumFrom(t, col, k) ==
  IF k > Len(t.rows) THEN Num(0)
  ELSE IF notna(t.rows[k].c[col])
       THEN FAdd(t.rows[k].c[col], SumFrom(t, col, k + 1))
       ELSE SumFrom(t, col, k + 1)

\* line 320
loss_orders(f) == Mask(f, [j \in 1..Len0(f) |-> LtZero(f.rows[j].c["Profit"])])

\* line 321
TotalLoss(f) ==
  IF Len0(loss_orders(f)) > 0 THEN FAbs(SumFrom(loss_orders(f), "Profit", 1)) ELSE Num(0)

----------------------------------------------------------------------------
(* main of dashboard_simple.py: the charts and tables of tabs 2 to 5 *)

\* the text values of the files in the order str sorts them
Alphabet ==
  <<"Chairs", "Consumer", "Corporate", "Desk", "Furniture", "Item A", "Item B", "Item C",
    "Item D", "Item E", "Item F", "Item G", "Item H", "Item I", "Item J",
    "Item K", "Lamp", "Phone", "Phones", "Tables", "Technology">>

\* the position of a text cell in sorted order
SortKey(c) == CHOOSE i \in 1..Len(Alphabet) : Alphabet[i] = c.s

CountNotNa(t, col) == Cardinality({k \in 1..Len(t.rows) : notna(t.rows[k].c[col])})

\* Series.mean(): NaN skipped, NaN for no value
Mean(t, col) ==
  IF CountNotNa(t, col) = 0 THEN NaN
  ELSE LET sm == SumFrom(t, col, 1)
       IN  IF sm.t = "num" THEN Num(RoundDiv(sm.v, CountNotNa(t, col))) ELSE sm

\* float comparison a > b (NaN compares false)
FGt(a, b) ==
  IF a.t = "nan" \/ b.t = "nan" THEN FALSE
  ELSE IF a.t = "inf" THEN b.t # "inf"
  ELSE IF a.t = "ninf" THEN FALSE
  ELSE IF b.t = "inf" THEN FALSE
  ELSE IF b.t = "ninf" THEN TRUE
  ELSE a.v > b.v

\* the rows of one group of groupby(key)
GroupRows(t, key, k) == Mask(t, [j \in 1..Len0(t) |-> t.rows[j].c[key] = k])

\* groupby(key)[col].sum(): one sum per key that is not missing
GroupSum(t, key, col) ==
  [k \in Options(t, key) |-> SumFrom(GroupRows(t, key, k), col, 1)]

\* the group keys of groupby(key) in the order of the result: sorted
SortedKeys(t, key) ==
  LET K == Options(t, key)
      names == SelectSeq(Alphabet, LAMBDA a : Str(a) \in K)
  IN  [i \in 1..Len(names) |-> Str(names[i])]

RECURSIVE GroupSales(_, _)
\* the summed Sales of the products keys, in their order
GroupSales(f, keys) ==
  IF keys = <<>> THEN <<>>
  ELSE <<[name |-> Head(keys),
          Sales |-> SumFrom(GroupRows(f, "Product Name", Head(keys)), "Sales", 1)]>>
       \o GroupSales(f, Tail(keys))

\* line 596: filtered_df.groupby('Product Name')['Sales'].sum()
ProductSales(f) == GroupSales(f, SortedKeys(f, "Product Name"))

\* line 596: the argument of nlargest
TopN == 10

\* variant of nlargest that keeps the first n entries of the series as they
\* come
head(g, n) == SubSeq(g, 1, IF Len(g) < n THEN Len(g) ELSE n)

\* Series.nlargest(n), keep='first': the n entries of largest value in
\* descending order of value, entries of equal value in the order of the
\* series
nlargest(g, n) ==
  LET ahead == [i \in 1..Len(g) |->
                  Cardinality({j \in 1..Len(g) :
                     \/ FGt(g[j].Sales, g[i].Sales)
                     \/ (g[j].Sales = g[i].Sales /\ j < i)})] \o <<>>
  IN  [r \in 1..(IF Len(g) < n THEN Len(g) ELSE n) |->
         g[CHOOSE i \in 1..Len(g) : ahead[i] = r - 1]] \o <<>>

\* lines 595-596
top_products(f) ==
  IF "Product Name" \in f.cols THEN nlargest(ProductSales(f), TopN) ELSE <<>>

\* variant of LossBy that aggregates every row of the view
LossByAll(f, key) ==
  [k \in Options(f, key) |-> FAbs(GroupSum(f, key, "Profit")[k])]

\* lines 641 and 659: loss_orders.groupby(key)['Profit'].sum().abs()
LossBy(f, key) ==
  [k \in Options(loss_orders(f), key) |-> FAbs(GroupSum(loss_orders(f), key, "Profit")[k])]

\* line 641
region_loss(f) == LossBy(f, "Region")

\* line 659
category_loss(f) == LossBy(f, "Category")

\* line 858: the rows whose Discount is between 0 and 1 (Discount is held in
\* hundredths)
valid_discount(f) ==
  Mask(f, [j \in 1..Len0(f) |->
             /\ f.rows[j].c["Discount"].t = "num"
             /\ f.rows[j].c["Discount"].v >= 0
             /\ f.rows[j].c["Discount"].v <= Scale])

\* line 859: more rows than this are needed
MinDiscountRows == 5

\* line 860: bins=5
BinCount == 5

MinOf(S) == CHOOSE x \in S : \A y \in S : x <= y

MaxOf(S) == CHOOSE x \in S : \A y \in S : x >= y

\* pd.cut(x, bins=5): equal-width bins over [mn, mx], closed on the right,
\* the first one holding mn; one value only is the middle of its range
BinOf(x, mn, mx) ==
  IF mn = mx THEN (BinCount + 1) \div 2
  ELSE IF x = mn THEN 1
  ELSE CHOOSE k \in 1..BinCount :
         /\ (k - 1) * (mx - mn) < BinCount * (x - mn)
         /\ BinCount * (x - mn) <= k * (mx - mn)

\* line 860: the bin of each row of the table
discount_bins(v) ==
  LET D == {v.rows[j].c["Discount"].v : j \in 1..Len0(v)}
      mn == MinOf(D)
      mx == MaxOf(D)
  IN  [j \in 1..Len0(v) |-> BinOf(v.rows[j].c["Discount"].v, mn, mx)]

\* the rows of bin k
BinRows(v, k) ==
  LET bins == discount_bins(v)
  IN  Mask(v, [j \in 1..Len0(v) |-> bins[j] = k])

\* lines 858-876: the mean Profit_Margin of every bin, or the notice that
\* there is too little discount data
discount_profit(f) ==
  LET v == valid_discount(f)
  IN  IF Len0(v) > MinDiscountRows
      THEN [kind |-> "chart",
            bins |-> [k \in 1..BinCount |-> Mean(BinRows(v, k), "Profit_Margin")]]
      ELSE [kind |-> "info", bins |-> <<>>]

\* the charts and tables of tabs 2 to 5 in the order of the page
TabBlocks ==
  <<"monthly_sales", "region_sales", "category_sales",
    "yearly_sales", "segment_sales", "top_products",
    "loss_metrics", "region_loss", "category_loss",
    "regional_analysis", "shipping_analysis", "margin_histogram",
    "category_profit", "quarterly_sales", "weekday_sales",
    "discount_scatter", "discount_profit">>

AllBlocks == Range(TabBlocks) \cup {"model"}

\* the blocks computed inside a try with an except Exception clause, those
\* of safe_histogram (lines 108-130) and safe_scatter (132-175) included;
\* the metrics of the loss tab (lines 615-632) are not
Guarded == Range(TabBlocks) \ {"loss_metrics"}

\* "if len(x) > 0: chart" of a grouped result
ChartIf(nonempty) == IF nonempty THEN "chart" ELSE "empty"

\* what the code of one block does on the view f: draws its chart, draws
\* nothing for an empty result, tells that a column is unavailable ("info"),
\* is skipped by its column test, or raises
Compute(f, b) ==
  CASE b = "monthly_sales" -> ChartIf(Options(f, "YearMonth") # {})
    [] b = "region_sales" -> ChartIf(Options(f, "Region") # {})
    [] b = "category_sales" -> ChartIf(Options(f, "Category") # {})
    [] b = "yearly_sales" -> ChartIf(Options(f, "Year") # {})
    [] b = "segment_sales" ->
         IF "Segment" \in f.cols THEN ChartIf(Options(f, "Segment") # {}) ELSE "info"
    [] b = "top_products" ->
         IF "Product Name" \in f.cols THEN ChartIf(Len(top_products(f)) > 0) ELSE "info"
    [] b = "loss_metrics" -> IF Len0(loss_orders(f)) > 0 THEN "chart" ELSE "info"
    [] b = "region_loss" ->
         IF Len0(loss_orders(f)) > 0
         THEN ChartIf(Options(loss_orders(f), "Region") # {}) ELSE "skipped"
    [] b = "category_loss" ->
         IF Len0(loss_orders(f)) > 0
         THEN ChartIf(Options(loss_orders(f), "Category") # {}) ELSE "skipped"
    [] b = "regional_analysis" ->
         IF "Customer ID" \notin f.cols THEN "info"
         ELSE IF "Discount" \notin f.cols THEN "raise" ELSE "chart"
    [] b = "shipping_analysis" ->
         IF "Ship Mode" \notin f.cols THEN "skipped"
         ELSE IF "Order ID" \notin f.cols THEN "raise" ELSE "chart"
    [] b = "margin_histogram" -> ChartIf(CountNotNa(f, "Profit_Margin") > 0)
    [] b = "category_profit" ->
         ChartIf(\E k \in Options(f, "Category") :
                   CountNotNa(GroupRows(f, "Category", k), "Profit_Margin") > 0)
    [] b = "quarterly_sales" -> ChartIf(Options(f, "Year") # {})
    [] b = "weekday_sales" -> "chart"
    [] b = "discount_scatter" ->
         IF "Discount" \notin f.cols THEN "skipped"
         ELSE ChartIf(\E j \in 1..Len0(f) :
                        /\ notna(f.rows[j].c["Discount"])
                        /\ notna(f.rows[j].c["Sales"])
                        /\ notna(f.rows[j].c["Category"]))
    [] OTHER ->
         IF "Discount" \notin f.cols THEN "skipped" ELSE discount_profit(f).kind

\* variant of Try without the except clause
TryReraise(o) == o

\* try: ... except Exception as e: st.error(...)
Try(o) == IF o = "raise" THEN "error" ELSE o

RECURSIVE RenderFrom(_, _, _)
\* the blocks from the k-th on, run in page order; an exception that no
\* block catches ends the run of main
RenderFrom(f, k, st) ==
  IF k > Len(TabBlocks) THEN st
  ELSE LET b == TabBlocks[k]
           o == IF b \in Guarded THEN Try(Compute(f, b)) ELSE Compute(f, b)
       IN  IF o = "raise" THEN [st EXCEPT ![b] = o]
           ELSE RenderFrom(f, k + 1, [st EXCEPT ![b] = o])

NoStatus == [b \in AllBlocks |-> "none"]

\* the KPI row and the charts and tables of dashboard.py in the order of
\* the script
BasicBlocks ==
  <<"kpi", "monthly_sales", "region_sales", "category_sales", "segment_analysis",
    "rfm", "forecast", "top_products", "profitability", "data_table">>

NoBasicStatus == [b \in Range(BasicBlocks) |-> "none"]

\* nothing rendered below the sidebar
NoPage ==
  [notice |-> "none", total_sales |-> Num(0), total_profit |-> Num(0),
   status |-> NoStatus, top_products |-> <<>>,
   region_loss |-> <<>>, category_loss |-> <<>>,
   discount_profit |-> [kind |-> "none", bins |-> <<>>],
   total_orders |-> 0, avg_order_value |-> Num(0), basic |-> NoBasicStatus]

----------------------------------------------------------------------------
(* main of dashboard_simple.py: data preparation of the model tab *)

\* a finite Profit_Rate is held with four decimals
RateScale == Scale * Scale

\* float division Profit / Sales; a finite quotient is held in 1/RateScale
FDiv(p, sl) ==
  IF p.t = "nan" \/ sl.t = "nan" THEN NaN
  ELSE IF sl.t = "num" /\ sl.v = 0
       THEN IF p.t = "num" /\ p.v = 0 THEN NaN
            ELSE IF GtZero(p) THEN Inf ELSE NInf
  ELSE IF sl.t = "num"
       THEN IF p.t = "num" THEN Num(RoundDiv(p.v * RateScale, sl.v))
            ELSE IF (p.t = "inf") = (sl.v > 0) THEN Inf ELSE NInf
  ELSE IF p.t = "num" THEN Num(0) ELSE NaN

\* lines 901-902: groupby('Product ID')['Profit_Rate'].mean() mapped back
ProductAvg(t, r) ==
  IF notna(r.c["Product ID"])
  THEN Mean(Mask(t, [j \in 1..Len0(t) |-> t.rows[j].c["Product ID"] = r.c["Product ID"]]), "Profit_Rate")
  ELSE NaN

\* lines 896-902; line 901 raises KeyError when Product ID is no column
ModelDf(t) ==
  LET m0 == t
      m1 == Assign(m0, "Profit_Rate", [j \in 1..Len0(m0) |-> FDiv(m0.rows[j].c["Profit"], m0.rows[j].c["Sales"])])
      m2 == Assign(m1, "Profit_Flag",
                   [j \in 1..Len0(m1) |-> Num(IF GtZero(m1.rows[j].c["Profit"]) THEN 1 ELSE 0)])
  IN  IF "Product ID" \in t.cols
      THEN Assign(m2, "Product_Avg_Profit_Rate", [j \in 1..Len0(m2) |-> ProductAvg(m2, m2.rows[j])])
      ELSE m2

\* variant of CopyForModel without the copy: model_df is df itself
AliasForModel(t) == [df |-> ModelDf(t), model_df |-> ModelDf(t)]

\* line 896: model_df = df.copy(); the columns are added to the copy, and df
\* keeps its own
CopyForModel(t) == [df |-> t, model_df |-> ModelDf(t)]

----------------------------------------------------------------------------
(* main of dashboard_simple.py: training and the discount simulator *)

\* line 905: the columns handed to pd.get_dummies
Dummied == <<"Category", "Sub-Category", "Segment">>

\* lines 906-908: the numeric features
NumericFeatures == <<"Discount", "Quantity", "Product_Avg_Profit_Rate">>

\* line 996, in hundredths
test_discounts == <<0, 10, 20, 30, 40, 50>>

\* a feature column: the dummy column col_val, or the column col itself
\* when val is missing
Feature(col, val) == [col |-> col, val |-> val]

RECURSIVE Passed(_, _)
\* get_dummies leaves a column that is not of dtype object as it is, ahead
\* of the dummy columns
Passed(t, k) ==
  IF k > Len(Dummied) THEN <<>>
  ELSE (IF Dummied[k] \in t.obj THEN <<>> ELSE <<Feature(Dummied[k], NaN)>>)
       \o Passed(t, k + 1)

\* the dummy columns of one column with drop_first=True: one per value in
\* sorted order, without the first
DummiesOf(t, col) ==
  IF col \in t.obj /\ Options(t, col) # {}
  THEN LET keys == Tail(SortedKeys(t, col))
       IN  [i \in 1..Len(keys) |-> Feature(col, keys[i])]
  ELSE <<>>

RECURSIVE DummiesFrom(_, _)
DummiesFrom(t, k) ==
  IF k > Len(Dummied) THEN <<>>
  ELSE DummiesOf(t, Dummied[k]) \o DummiesFrom(t, k + 1)

\* pd.get_dummies(t[Dummied], drop_first=True).columns
get_dummies(t) == Passed(t, 1) \o DummiesFrom(t, 1)

\* lines 905-908: features.columns
FeatureColumns(t) ==
  get_dummies(t) \o [i \in 1..Len(NumericFeatures) |-> Feature(NumericFeatures[i], NaN)]

\* lines 905-908: one feature of one row of model_df
FeatureCell(fc, r) ==
  IF notna(fc.val) THEN Num(IF r.c[fc.col] = fc.val THEN 1 ELSE 0) ELSE r.c[fc.col]

\* lines 905-908: the features of one row of model_df
FeatureRow(cols, r) == [i \in 1..Len(cols) |-> FeatureCell(cols[i], r)]

\* lines 911-912: features.notna().all(axis=1)
valid_idx(t) ==
  LET cols == FeatureColumns(t)
  IN  [j \in 1..Len0(t) |-> \A i \in 1..Len(cols) : notna(FeatureCell(cols[i], t.rows[j]))]

\* lines 905-926 raise on a missing column (KeyError), on fewer than two
\* clean rows (train_test_split, test_size=0.2) and on a feature or a
\* Profit_Rate that is no finite number (fit and score)
TrainRaises(t) ==
  \/ ~((Range(Dummied) \cup Range(NumericFeatures)) \subseteq t.cols)
  \/ LET cols == FeatureColumns(t)
         clean == Mask(t, valid_idx(t))
     IN  \/ Len0(clean) < 2
         \/ \E j \in 1..Len0(clean) :
              \/ ~IsFinite(clean.rows[j].c["Profit_Rate"])
              \/ \E i \in 1..Len(cols) : ~IsFinite(FeatureCell(cols[i], clean.rows[j]))

\* Series.unique(): the values of a column, a missing one included
unique(t, col) == {t.rows[k].c[col] : k \in 1..Len(t.rows)}

\* comparison of a column with a selected value (NaN and None equal no
\* cell)
EqCell(c, x) == notna(c) /\ notna(x) /\ c = x

\* lines 985-986: the sub-categories offered for a category
subcategories(t, cat) ==
  unique(Mask(t, [j \in 1..Len0(t) |-> EqCell(t.rows[j].c["Category"], cat)]), "Sub-Category")

\* lines 999-1003
sample_data(m, cat, sub, seg) ==
  Mask(m, [j \in 1..Len0(m) |->
             /\ EqCell(m.rows[j].c["Category"], cat)
             /\ EqCell(m.rows[j].c["Sub-Category"], sub)
             /\ EqCell(m.rows[j].c["Segment"], seg)])

\* the mean of a column held in hundredths
MeanScaled(t, col) ==
  IF CountNotNa(t, col) = 0 THEN NaN
  ELSE IF SumFrom(t, col, 1).t = "num"
       THEN Num(RoundDiv(SumFrom(t, col, 1).v * Scale, CountNotNa(t, col)))
       ELSE SumFrom(t, col, 1)

\* lines 1013-1017: the one-row frame of the selection
SelectionFrame(cat, sub, seg) ==
  [cols |-> Range(Dummied),
   obj |-> {x \in Range(Dummied) :
              (IF x = "Category" THEN cat ELSE IF x = "Sub-Category" THEN sub ELSE seg).t = "str"},
   rows |-> <<[i |-> 0,
               c |-> [x \in Range(Dummied) |->
                        IF x = "Category" THEN cat ELSE IF x = "Sub-Category" THEN sub ELSE seg]]>>]

\* lines 1013-1030: the synthetic feature row of one grid point, on the
\* training columns cols: the columns get_dummies makes of the one-row
\* frame, the three numeric features, and 0 in every training column that
\* is missing
test_features(cols, sample, cat, sub, seg, discount) ==
  LET frame == SelectionFrame(cat, sub, seg)
      made == Range(get_dummies(frame))
      quantity == MeanScaled(sample, "Quantity")
      rate == Mean(sample, "Product_Avg_Profit_Rate")
  IN  [i \in 1..Len(cols) |->
         IF cols[i].col = "Discount" THEN Num(discount)
         ELSE IF cols[i].col = "Quantity" THEN quantity
         ELSE IF cols[i].col = "Product_Avg_Profit_Rate" THEN rate
         ELSE IF cols[i] \in made
              THEN IF notna(cols[i].val) THEN Num(1) ELSE frame.rows[1].c[cols[i].col]
         ELSE Num(0)]

\* lines 1010-1033: the synthetic rows of the grid
GridRows(cols, sample, cat, sub, seg) ==
  [k \in 1..Len(test_discounts) |-> test_features(cols, sample, cat, sub, seg, test_discounts[k])]
  \o <<>>

\* the judgements the classifier can make over the grid
Signs == [1..Len(test_discounts) -> {"profit", "loss"}]

\* predicted margins over the grid, in tenths of a percent: flat, or
\* falling with the discount
Margins ==
  {[i \in 1..Len(test_discounts) |-> 50],
   [i \in 1..Len(test_discounts) |-> 150 - 50 * i]}

RECURSIVE LastProfitable(_, _, _)
\* lines 1059-1063: max_profitable_discount after the grid points from k on
LastProfitable(signs, k, best) ==
  IF k > Len(test_discounts) THEN best
  ELSE LastProfitable(signs, k + 1, IF signs[k] = "profit" THEN test_discounts[k] ELSE best)

\* lines 1059-1077: the recommended maximum, or the warning that a
\* discount makes a loss
Recommend(signs) ==
  IF LastProfitable(signs, 1, 0) > 0
  THEN [kind |-> "maximum", discount |-> LastProfitable(signs, 1, 0)]
  ELSE [kind |-> "warning", discount |-> 0]

\* no simulation on the page
NoSim ==
  [columns |-> <<>>, choice |-> <<>>, notice |-> "none", sample |-> 0,
   rows |-> <<>>, signs |-> <<>>, margins |-> <<>>,
   recommendation |-> [kind |-> "none", discount |-> 0]]

----------------------------------------------------------------------------
(* dashboard.py: load_data, sidebar and filter of the basic variant *)

basic_file == "Sample - Superstore.csv"

\* dashboard.py lines 24-27: pd.to_datetime without errors='coerce' (the
\* caller makes sure that no cell is unparseable), then Year, Month and
\* YearMonth; no row is dropped and a missing date gives a missing Year
BasicFeatures(t) ==
  LET t1 == Assign(t, "Order Date", [j \in 1..Len0(t) |-> to_datetime(t.rows[j].c["Order Date"])])
      t2 == Assign(t1, "Year",
                   [j \in 1..Len0(t1) |-> IF notna(t1.rows[j].c["Order Date"])
                              THEN Num(YearOf(t1.rows[j].c["Order Date"].v)) ELSE NaN])
      t3 == Assign(t2, "Month", [j \in 1..Len0(t2) |-> t2.rows[j].c["Order Date"]])
  IN  Assign(t3, "YearMonth", [j \in 1..Len0(t3) |-> t3.rows[j].c["Order Date"]])

\* dashboard.py line 24 raises on a missing column or an unparseable date
BasicDatesRaise(t) ==
  \/ "Order Date" \notin t.cols
  \/ \E k \in 1..Len(t.rows) : t.rows[k].c["Order Date"].t = "str"

\* dashboard.py lines 48, 54, 60: df[col].unique(), missing value included
BasicOptions(t, d) == {t.rows[k].c[d] : k \in 1..Len(t.rows)}

\* variant of BasicFilterView for which an empty selection filters nothing
BasicFilterSkipEmpty(t, sy, sr, sc) ==
  FilterDim(FilterDim(FilterDim(t, "Year", sy), "Region", sr), "Category", sc)

\* dashboard.py lines 65-69: one mask, the conjunction of three isin
BasicFilterView(t, sy, sr, sc) ==
  Mask(t, [j \in 1..Len0(t) |-> t.rows[j].c["Year"] \in sy /\ t.rows[j].c["Region"] \in sr /\ t.rows[j].c["Category"] \in sc])

\* dashboard.py line 87: Series.nunique(), missing values not counted
nunique(t, col) == Cardinality(Options(t, col))

\* dashboard.py line 327: the columns of the data table
TableColumns ==
  {"Order Date", "Customer Name", "Category", "Product Name", "Sales", "Profit", "Region"}

\* dashboard.py line 311: Profit / Sales * 100 of the rows of category k;
\* only its sign and whether it is a number matter to the chart
CategoryMargin(f, k) ==
  FDiv(SumFrom(GroupRows(f, "Category", k), "Profit", 1),
       SumFrom(GroupRows(f, "Category", k), "Sales", 1))

\* dashboard.py lines 313-321: px.scatter rejects a marker size that is
\* negative or no number
BadSize(c) == c.t = "nan" \/ LtZero(c)

\* what one block of dashboard.py below the KPI row does on the view f:
\* draws its chart or table (of no row when the view has none), warns that
\* a file of its own is not there, or raises; rfm and forecast tell whether
\* the files of lines 33 and 229 exist.  No block is inside a try that
\* catches its exception (line 286 catches FileNotFoundError only, and
\* line 241 calls update_xaxis, which a figure does not have)
BasicCompute(f, b, rfm, forecast) ==
  CASE b = "monthly_sales" -> "chart"
    [] b = "region_sales" -> "chart"
    [] b = "category_sales" -> "chart"
    [] b = "segment_analysis" ->
         IF {"Segment", "Order ID"} \subseteq f.cols THEN "chart" ELSE "raise"
    [] b = "rfm" -> IF rfm THEN "chart" ELSE "warning"
    [] b = "forecast" -> IF forecast THEN "raise" ELSE "warning"
    [] b = "top_products" -> IF "Product Name" \in f.cols THEN "chart" ELSE "raise"
    [] b = "profitability" ->
         IF \E k \in Options(f, "Category") : BadSize(CategoryMargin(f, k))
         THEN "raise" ELSE "chart"
    [] OTHER -> IF TableColumns \subseteq f.cols THEN "chart" ELSE "raise"

RECURSIVE BasicRenderFrom(_, _, _, _, _)
\* dashboard.py lines 97-329: the blocks from the k-th on, in the order of
\* the script; an exception ends the script
BasicRenderFrom(f, k, st, rfm, forecast) ==
  IF k > Len(BasicBlocks) THEN st
  ELSE LET o == BasicCompute(f, BasicBlocks[k], rfm, forecast)
       IN  IF o = "raise" THEN [st EXCEPT ![BasicBlocks[k]] = o]
           ELSE BasicRenderFrom(f, k + 1, [st EXCEPT ![BasicBlocks[k]] = o], rfm, forecast)

----------------------------------------------------------------------------
(* Source files *)

FileColumns ==
  {"Order Date", "Ship Date", "Sales", "Profit", "Region", "Category",
   "Segment", "Ship Mode", "Quantity", "Discount", "Product ID",
   "Sub-Category", "Product Name", "Customer ID", "Customer Name", "Order ID"}

\* the columns of the example table: the required ones and the discount
ExampleColumns == Range(required_columns) \cup {"Discount"}

\* column sets of the files: all columns, the required ones only, the
\* required ones with the numeric and product columns, the required ones
\* with the customer and the ship mode, and those of the example table
ColumnSets ==
  {FileColumns,
   Range(required_columns),
   Range(required_columns) \cup {"Quantity", "Discount", "Product ID"},
   Range(required_columns) \cup {"Customer ID", "Ship Mode"},
   ExampleColumns}

RawRow(od, sd, sales, profit, region, category, segment, ship, qty, disc, pid) ==
  [x \in FileColumns |->
     CASE x = "Order Date" -> od
       [] x = "Ship Date" -> sd
       [] x = "Sales" -> sales
       [] x = "Profit" -> profit
       [] x = "Region" -> region
       [] x = "Category" -> category
       [] x = "Segment" -> segment
       [] x = "Ship Mode" -> ship
       [] x = "Quantity" -> qty
       [] x = "Discount" -> disc
       [] x = "Product ID" -> pid
       [] x = "Sub-Category" -> Str("Chairs")
       [] x = "Product Name" -> Str("Lamp")
       [] x = "Customer ID" -> Str("C1")
       [] x = "Customer Name" -> Str("Ann")
       [] OTHER -> Str("O1")]

\* the row with another cell in column col
With(row, col, cell) == [row EXCEPT ![col] = cell]

DaysBeforeMonth == <<0, 31, 59, 90, 120, 151, 181, 212, 243, 273, 304, 334>>

\* the day number of a date of 2016 (a leap year) or later, 2016-01-01 = 0
DayOf(y, m, d) ==
  (y - 2016) * 365 + (IF y > 2016 THEN 1 ELSE 0) + DaysBeforeMonth[m]
  + (IF y = 2016 /\ m > 2 THEN 1 ELSE 0) + d - 1

D2017 == DayOf(2017, 3, 1)
D2016 == DayOf(2016, 1, 11)

\* rows of well-formed files; Discount in hundredths
ExampleRow ==
  RawRow(Date(D2017), Date(D2017 + 3), Num(100), Num(-20), Str("West"),
         Str("Furniture"), Str("Consumer"), Str("First Class"), Num(2), Num(50), Str("P1"))

CleanRows ==
  {ExampleRow,
   With(With(RawRow(Date(D2017), Date(D2017 + 2), Num(100), Num(50), Str("East"),
                    Str("Furniture"), Str("Corporate"), Str("First Class"), Num(3), Num(0), Str("P2")),
             "Sub-Category", Str("Tables")), "Product Name", Str("Desk")),
   With(With(RawRow(Date(D2016), Date(D2016 + 2), Num(3), Num(0), Str("West"),
                    Str("Technology"), Str("Consumer"), Str("First Class"), Num(1), Num(0), Str("P1")),
             "Sub-Category", Str("Phones")), "Product Name", Str("Phone")),
   With(RawRow(Date(D2017), Date(D2017 + 5), Num(100), Num(50), NaN,
               Str("Furniture"), Str("Consumer"), Str("First Class"), Num(2), Num(20), Str("P2")),
        "Product Name", NaN),
   With(With(RawRow(Date(D2016), NaN, Num(100), Num(-20), Str("East"),
                    Str("Technology"), NaN, NaN, Num(2), Num(20), NaN),
             "Sub-Category", Str("Phones")), "Product Name", Str("Phone")),
   RawRow(Str("unknown"), Date(D2016), Num(100), Num(50), Str("West"),
          Str("Furniture"), Str("Consumer"), Str("First Class"), Num(2), Num(0), Str("P1"))}

\* rows whose date and numeric cells take every kind of value
DirtyRows ==
  {RawRow(Date(D2017), Date(D2016), sales, profit, Str("West"), Str("Furniture"),
          Str("Consumer"), Str("First Class"), Num(2), Num(0), Str("P1")) :
     sales \in {Num(0), Num(3), Num(100), Str("abc"), Inf},
     profit \in {Num(-20), Num(50), Inf, NaN}}
  \cup
  {RawRow(od, Date(D2016), sales, Num(50), Str("West"), Str("Furniture"),
          Str("Consumer"), Str("First Class"), Num(2), Num(0), Str("P1")) :
     od \in {Str("unknown"), NaN}, sales \in {Num(100), Str("abc")}}
  \cup
  {RawRow(Date(D2017), Date(D2016), Num(100), Str("abc"), Str("West"), Str("Furniture"),
          Str("Consumer"), Str("First Class"), qty, disc, Str("P1")) :
     qty \in {Str("two"), NaN}, disc \in {Num(20), Str("20%")}}

SeqsUpTo(S, n) == UNION {[1..k -> S] : k \in 0..n}

Project(rows, cols) == [k \in 1..Len(rows) |-> [x \in cols |-> rows[k][x]]]

\* CSV contents with the required columns
Contents(pool) ==
  {Csv(cols, Project(rows, cols)) : cols \in ColumnSets, rows \in SeqsUpTo(pool, MaxRows)}

SampleRows == <<ExampleRow>>

\* CSV contents that lack required columns
Incomplete ==
  {Csv(FileColumns \ m, Project(SampleRows, FileColumns \ m)) :
     m \in (SUBSET Range(required_columns)) \ {{}}}

\* file systems: the first candidate holds the content, or it is absent and
\* the second one holds it, is unreadable or is absent as well
FileSystems(contents) ==
  {[n \in Range(file_options) |-> IF n = file_options[1] THEN c ELSE Absent] :
     c \in contents \cup {Garbage}}
  \cup
  {[n \in Range(file_options) |-> IF n = file_options[1] THEN Absent ELSE c] :
     c \in {Absent, Garbage, Csv(FileColumns, Project(SampleRows, FileColumns))}}

\* the product names of a file of products, in the order of their first
\* rows
ProductOrder ==
  <<"Item F", "Item B", "Item K", "Item A", "Item H", "Item C", "Item J",
    "Item E", "Item D", "Item I", "Item G">>

\* the k-th row of a file of products; the names repeat after the last one
ProductRow(k, sales) ==
  With(With(ExampleRow, "Product Name", Str(ProductOrder[((k - 1) % Len(ProductOrder)) + 1])),
       "Sales", Num(sales))

\* files of up to n rows, one product each, of large sales but for at most
\* two rows of small sales
ProductFiles(n) ==
  UNION {{[k \in 1..m |-> ProductRow(k, IF k \in S THEN 10 ELSE 20)] :
            S \in {T \in SUBSET (1..m) : Cardinality(T) <= 2}} : m \in 0..n}

\* files of up to n rows of no, a medium or a high discount
BinFiles(n) ==
  UNION {{[k \in 1..m |-> With(ExampleRow, "Discount", Num(x[k]))] : x \in [1..m -> {0, 30, 80}]} :
           m \in 0..n}

\* CSV contents with every column
ReportContents(products, discounts) ==
  {Csv(FileColumns, rows) : rows \in ProductFiles(products) \cup BinFiles(discounts)}

\* the rows of the files that replace one another under a running page
CacheRows == {ExampleRow, With(With(ExampleRow, "Region", Str("East")), "Profit", Num(50))}

----------------------------------------------------------------------------
(* State machine *)

NoCache == [hit |-> FALSE, value |-> NoTable]

LoadPcs == {"start", "check", "dates", "margin", "coerce"}
MainPcs == {"sidebar", "filter", "summary", "tabs", "model", "train", "simulate", "done", "empty"}
BasicPcs == {"b_start", "b_sidebar", "b_filter", "b_filtered", "b_tabs", "b_done", "b_crashed"}

InitLocals ==
  /\ cache = NoCache
  /\ err = "none"
  /\ errCols = <<>>
  /\ df = NoTable
  /\ sel = NoSel
  /\ profit_filter = "all"
  /\ filtered_df = NoTable
  /\ total_loss = Num(0)
  /\ model_df = NoTable
  /\ page = NoPage
  /\ sim = NoSim

\* the positions at which the script has come to its end and the page waits
\* for the next interaction
Idle == {"done", "empty", "b_done"}

\* either page is started on a file system of well-formed files
Init ==
  /\ fs \in FileSystems(Contents(CleanRows) \cup Incomplete)
  /\ pc \in {"start", "b_start"}
  /\ InitLocals

\* load_data of dashboard_simple.py alone, on files with any kind of cell
InitLoad ==
  /\ fs \in FileSystems(Contents(DirtyRows) \cup Incomplete)
  /\ pc = "start"
  /\ InitLocals

\* the page of dashboard_simple.py on its first run, on files of many
\* products or discounts
InitReport ==
  /\ fs \in FileSystems(ReportContents(MaxProducts, MaxBinRows))
  /\ pc = "start"
  /\ InitLocals

\* the page of dashboard.py on files of well-formed rows
InitBasic ==
  /\ fs \in FileSystems(Contents(CleanRows) \cup Incomplete)
  /\ pc = "b_start"
  /\ InitLocals

\* the page of dashboard_simple.py on its first run, down to the simulator
InitSim ==
  /\ fs \in FileSystems(Contents(CleanRows))
  /\ pc = "start"
  /\ InitLocals

\* either page on files that are replaced between its runs
InitCache ==
  /\ fs \in FileSystems(Contents(CacheRows))
  /\ pc \in {"start", "b_start"}
  /\ InitLocals

\* the source files are replaced while the page waits for an interaction;
\* nothing of the page or of st.cache_data takes notice
ReplaceFile ==
  /\ pc \in Idle
  /\ fs' \in FileSystems(Contents(CacheRows)) \ {fs}
  /\ UNCHANGED <<cache, pc, err, errCols, df, sel, profit_filter, filtered_df, total_loss,
                 model_df, page, sim>>

\* lines 21-44, cache miss: read the first readable candidate
ReadFile ==
  /\ pc = "start"
  /\ ~cache.hit
  /\ IF FirstReadable(fs) = 0
     THEN /\ err' = "FileNotReadable"
          /\ pc' = "stopped"
          /\ df' = df
     ELSE IF fs[file_options[FirstReadable(fs)]].kind = "garbage"
     THEN /\ err' = "ReadError"
          /\ pc' = "stopped"
          /\ df' = df
     ELSE /\ err' = err
          /\ pc' = "check"
          /\ df' = read_csv(fs[file_options[FirstReadable(fs)]])
  /\ UNCHANGED <<fs, cache, errCols, sel, profit_filter, filtered_df, total_loss, model_df, page, sim>>

\* lines 46-51
CheckColumns ==
  /\ pc = "check"
  /\ IF missing_columns(df) # <<>>
     THEN /\ err' = "SchemaMismatch"
          /\ errCols' = missing_columns(df)
          /\ pc' = "stopped"
     ELSE /\ pc' = "dates"
          /\ UNCHANGED <<err, errCols>>
  /\ UNCHANGED <<fs, cache, df, sel, profit_filter, filtered_df, total_loss, model_df, page, sim>>

\* lines 53-78
DateStep ==
  /\ pc = "dates"
  /\ df' = DateFeatures(df)
  /\ pc' = "margin"
  /\ UNCHANGED <<fs, cache, err, errCols, sel, profit_filter, filtered_df, total_loss, model_df, page, sim>>

\* lines 80-96
MarginStep ==
  /\ pc = "margin"
  /\ df' = ProfitMargin(df)
  /\ pc' = "coerce"
  /\ UNCHANGED <<fs, cache, err, errCols, sel, profit_filter, filtered_df, total_loss, model_df, page, sim>>

\* lines 98-104 and line 19: the returned table is stored by st.cache_data
CoerceStep ==
  /\ pc = "coerce"
  /\ df' = CoerceNumeric(df)
  /\ cache' = [hit |-> TRUE, value |-> CoerceNumeric(df)]
  /\ pc' = "sidebar"
  /\ UNCHANGED <<fs, err, errCols, sel, profit_filter, filtered_df, total_loss, model_df, page, sim>>

\* line 19 and line 178, cache hit: st.cache_data hands out a copy of the
\* stored table
LoadCached ==
  /\ pc = "start"
  /\ cache.hit
  /\ df' = cache.value
  /\ pc' = "sidebar"
  /\ UNCHANGED <<fs, cache, err, errCols, sel, profit_filter, filtered_df, total_loss, model_df, page, sim>>

\* lines 187-255: the selections of the sidebar widgets
Sidebar ==
  /\ pc = "sidebar"
  /\ \E sy \in SUBSET Options(df, "Year"), sr \in SUBSET Options(df, "Region"),
        sc \in SUBSET Options(df, "Category"), sg \in SUBSET Options(df, "Segment"),
        sm \in SUBSET Options(df, "Ship Mode") :
       sel' = Selection(sy, sr, sc, sg, sm)
  /\ profit_filter' \in ProfitModes
  /\ pc' = "filter"
  /\ UNCHANGED <<fs, cache, err, errCols, df, filtered_df, total_loss, model_df, page, sim>>

\* lines 187-255 on the first run of the page: every widget holds its
\* default, all offered values and the first profit mode
SidebarDefault ==
  /\ pc = "sidebar"
  /\ sel' = [d \in Range(Dims) |-> Options(df, d)]
  /\ profit_filter' = "all"
  /\ pc' = "filter"
  /\ UNCHANGED <<fs, cache, err, errCols, df, filtered_df, total_loss, model_df, page, sim>>

\* variant of Filter that goes on with an empty view
FilterGoOn ==
  /\ pc = "filter"
  /\ filtered_df' = FilterView(df, sel, profit_filter)
  /\ pc' = "summary"
  /\ UNCHANGED <<fs, cache, err, errCols, df, sel, profit_filter, total_loss, model_df, page, sim>>

\* lines 257-284: an empty view is told to the user and main returns
Filter ==
  /\ pc = "filter"
  /\ filtered_df' = FilterView(df, sel, profit_filter)
  /\ IF Len0(FilterView(df, sel, profit_filter)) = 0
     THEN /\ page' = [page EXCEPT !.notice = "empty_filter"]
          /\ pc' = "empty"
     ELSE /\ page' = page
          /\ pc' = "summary"
  /\ UNCHANGED <<fs, cache, err, errCols, df, sel, profit_filter, total_loss, model_df, sim>>

\* lines 318-367: the loss summary and the KPI row
LossSummary ==
  /\ pc = "summary"
  /\ total_loss' = TotalLoss(filtered_df)
  /\ page' = [page EXCEPT !.total_sales = SumFrom(filtered_df, "Sales", 1),
                          !.total_profit = SumFrom(filtered_df, "Profit", 1)]
  /\ pc' = "tabs"
  /\ UNCHANGED <<fs, cache, err, errCols, df, sel, profit_filter, filtered_df, model_df, sim>>

\* lines 492-876: tabs 2 to 5; lines 1119-1124: an exception that leaves
\* main is reported and the page ends
RenderTabs ==
  /\ pc = "tabs"
  /\ \E st \in {RenderFrom(filtered_df, 1, page.status)} :
         /\ page' = [page EXCEPT
                       !.status = st,
                       !.top_products =
                          IF st["top_products"] = "chart" THEN top_products(filtered_df) ELSE <<>>,
                       !.region_loss =
                          IF st["region_loss"] = "chart" THEN region_loss(filtered_df) ELSE <<>>,
                       !.category_loss =
                          IF st["category_loss"] = "chart" THEN category_loss(filtered_df) ELSE <<>>,
                       !.discount_profit =
                          IF st["discount_profit"] \in {"chart", "info"}
                          THEN discount_profit(filtered_df) ELSE @]
         /\ IF \E b \in Range(TabBlocks) : st[b] = "raise"
            THEN pc' = "crashed" /\ err' = "ApplicationError"
            ELSE pc' = "model" /\ err' = err
  /\ UNCHANGED <<fs, cache, errCols, df, sel, profit_filter, filtered_df, total_loss, model_df, sim>>

\* lines 889-902; without a Product ID column line 901 raises and the
\* except clause of the tab (lines 1113-1115) reports it
ModelPrepare ==
  /\ pc = "model"
  /\ df' = CopyForModel(df).df
  /\ model_df' = CopyForModel(df).model_df
  /\ IF "Product ID" \in df.cols
     THEN pc' = "train" /\ page' = page
     ELSE pc' = "done" /\ page' = [page EXCEPT !.status["model"] = "error"]
  /\ UNCHANGED <<fs, cache, err, errCols, sel, profit_filter, filtered_df, total_loss, sim>>

\* lines 904-975: the features and the two fitted models; an exception is
\* reported by the except clause of the tab
Train ==
  /\ pc = "train"
  /\ IF TrainRaises(model_df)
     THEN /\ pc' = "done"
          /\ page' = [page EXCEPT !.status["model"] = "error"]
          /\ sim' = sim
     ELSE /\ pc' = "simulate"
          /\ page' = [page EXCEPT !.status["model"] = "chart"]
          /\ sim' = [sim EXCEPT !.columns = FeatureColumns(model_df)]
  /\ UNCHANGED <<fs, cache, err, errCols, df, sel, profit_filter, filtered_df, total_loss, model_df>>

\* variant of Simulate that predicts whether or not a row matches
SimulateAlways ==
  /\ pc = "simulate"
  /\ \E cat \in unique(df, "Category"), seg \in unique(df, "Segment") :
     \E sub \in (IF subcategories(df, cat) = {} THEN {NaN} ELSE subcategories(df, cat)) :
     \E sample \in {sample_data(model_df, cat, sub, seg)} :
     \E rows \in {GridRows(sim.columns, sample, cat, sub, seg)} :
           \E signs \in Signs, margins \in Margins :
             sim' = [sim EXCEPT
                       !.choice = <<cat, sub, seg>>,
                       !.sample = Len0(sample),
                       !.rows = rows,
                       !.signs = signs,
                       !.margins = margins,
                       !.recommendation = Recommend(signs)]
  /\ pc' = "done"
  /\ UNCHANGED <<fs, cache, err, errCols, df, sel, profit_filter, filtered_df, total_loss, model_df, page>>

\* lines 977-1080: the three selections, the rows that match them, and
\* either the predictions over the grid with the recommendation or the
\* notice that no row matches; the fitted models are free to predict
\* anything
Simulate ==
  /\ pc = "simulate"
  /\ \E cat \in unique(df, "Category"), seg \in unique(df, "Segment") :
     \E sub \in (IF subcategories(df, cat) = {} THEN {NaN} ELSE subcategories(df, cat)) :
     \E sample \in {sample_data(model_df, cat, sub, seg)} :
     \E rows \in {GridRows(sim.columns, sample, cat, sub, seg)} :
           IF Len0(sample) > 0
           THEN \E signs \in Signs, margins \in Margins :
                  sim' = [sim EXCEPT
                            !.choice = <<cat, sub, seg>>,
                            !.sample = Len0(sample),
                            !.rows = rows,
                            !.signs = signs,
                            !.margins = margins,
                            !.recommendation = Recommend(signs)]
           ELSE sim' = [sim EXCEPT !.choice = <<cat, sub, seg>>, !.notice = "no_data"]
  /\ pc' = "done"
  /\ UNCHANGED <<fs, cache, err, errCols, df, sel, profit_filter, filtered_df, total_loss, model_df, page>>

\* dashboard.py lines 21-28 and 38
BasicLoad ==
  /\ pc = "b_start"
  /\ IF cache.hit
     THEN /\ df' = cache.value
          /\ pc' = "b_sidebar"
          /\ UNCHANGED <<cache, err>>
     ELSE IF fs[basic_file].kind # "csv"
     THEN /\ err' = IF fs[basic_file].kind = "absent" THEN "FileNotFoundError" ELSE "ReadError"
          /\ pc' = "b_crashed"
          /\ UNCHANGED <<cache, df>>
     ELSE IF BasicDatesRaise(read_csv(fs[basic_file]))
     THEN /\ err' = "DateError"
          /\ pc' = "b_crashed"
          /\ UNCHANGED <<cache, df>>
     ELSE /\ df' = BasicFeatures(read_csv(fs[basic_file]))
          /\ cache' = [hit |-> TRUE, value |-> BasicFeatures(read_csv(fs[basic_file]))]
          /\ pc' = "b_sidebar"
          /\ err' = err
  /\ UNCHANGED <<fs, errCols, sel, profit_filter, filtered_df, total_loss, model_df, page, sim>>

\* dashboard.py lines 46-62; a missing Region or Category column raises
BasicSidebar ==
  /\ pc = "b_sidebar"
  /\ IF {"Region", "Category"} \subseteq df.cols
     THEN /\ \E sy \in SUBSET BasicOptions(df, "Year"), sr \in SUBSET BasicOptions(df, "Region"),
                sc \in SUBSET BasicOptions(df, "Category") :
               sel' = Selection(sy, sr, sc, {}, {})
          /\ pc' = "b_filter"
          /\ err' = err
     ELSE /\ err' = "KeyError"
          /\ pc' = "b_crashed"
          /\ sel' = sel
  /\ UNCHANGED <<fs, cache, errCols, df, profit_filter, filtered_df, total_loss, model_df, page, sim>>

\* dashboard.py lines 64-69
BasicFilter ==
  /\ pc = "b_filter"
  /\ filtered_df' = BasicFilterView(df, sel["Year"], sel["Region"], sel["Category"])
  /\ pc' = "b_filtered"
  /\ UNCHANGED <<fs, cache, err, errCols, df, sel, profit_filter, total_loss, model_df, page, sim>>

\* dashboard.py lines 75-92: the four KPIs; each is shown as soon as it is
\* computed, and a column that is not there raises KeyError
BasicKpi ==
  /\ pc = "b_filtered"
  /\ IF "Sales" \notin filtered_df.cols
     THEN /\ page' = [page EXCEPT !.basic["kpi"] = "raise"]
          /\ pc' = "b_crashed" /\ err' = "KeyError"
     ELSE IF "Profit" \notin filtered_df.cols
     THEN /\ page' = [page EXCEPT !.basic["kpi"] = "raise",
                                  !.total_sales = SumFrom(filtered_df, "Sales", 1)]
          /\ pc' = "b_crashed" /\ err' = "KeyError"
     ELSE IF "Order ID" \notin filtered_df.cols
     THEN /\ page' = [page EXCEPT !.basic["kpi"] = "raise",
                                  !.total_sales = SumFrom(filtered_df, "Sales", 1),
                                  !.total_profit = SumFrom(filtered_df, "Profit", 1)]
          /\ pc' = "b_crashed" /\ err' = "KeyError"
     ELSE /\ page' = [page EXCEPT !.basic["kpi"] = "chart",
                                  !.total_sales = SumFrom(filtered_df, "Sales", 1),
                                  !.total_profit = SumFrom(filtered_df, "Profit", 1),
                                  !.total_orders = nunique(filtered_df, "Order ID"),
                                  !.avg_order_value = Mean(filtered_df, "Sales")]
          /\ pc' = "b_tabs" /\ err' = err
  /\ UNCHANGED <<fs, cache, errCols, df, sel, profit_filter, filtered_df, total_loss, model_df, sim>>

\* dashboard.py lines 97-333: the four tabs; the files of the RFM table and
\* of the forecast are there or not
BasicTabs ==
  /\ pc = "b_tabs"
  /\ \E rfm \in BOOLEAN, forecast \in BOOLEAN :
     \E st \in {BasicRenderFrom(filtered_df, 2, page.basic, rfm, forecast)} :
         /\ page' = [page EXCEPT
                       !.basic = st,
                       !.top_products =
                          IF st["top_products"] = "chart" THEN top_products(filtered_df) ELSE <<>>]
         /\ IF \E b \in Range(BasicBlocks) : st[b] = "raise"
            THEN pc' = "b_crashed" /\ err' = "ApplicationError"
            ELSE pc' = "b_done" /\ err' = err
  /\ UNCHANGED <<fs, cache, errCols, df, sel, profit_filter, filtered_df, total_loss, model_df, sim>>

\* a widget interaction reruns the script of the basic variant from the
\* top; it comes when the script has ended or while it runs below the filter
BasicRerun ==
  /\ pc \in {"b_filtered", "b_done"}
  /\ pc' = "b_start"
  /\ df' = NoTable
  /\ sel' = NoSel
  /\ filtered_df' = NoTable
  /\ page' = NoPage
  /\ UNCHANGED <<fs, cache, err, errCols, profit_filter, total_loss, model_df, sim>>

\* a widget interaction reruns the script from the top; it comes when main
\* has returned or while the simulator is on the page
Rerun ==
  /\ pc \in {"simulate", "done", "empty"}
  /\ pc' = "start"
  /\ df' = NoTable
  /\ sel' = NoSel
  /\ profit_filter' = "all"
  /\ filtered_df' = NoTable
  /\ total_loss' = Num(0)
  /\ model_df' = NoTable
  /\ page' = NoPage
  /\ sim' = NoSim
  /\ UNCHANGED <<fs, cache, err, errCols>>

NextLoad == ReadFile \/ CheckColumns \/ DateStep \/ MarginStep \/ CoerceStep

Next ==
  \/ ReadFile \/ CheckColumns \/ DateStep \/ MarginStep \/ CoerceStep
  \/ LoadCached \/ Sidebar \/ Filter \/ LossSummary \/ RenderTabs
  \/ ModelPrepare \/ Train \/ Rerun
  \/ BasicLoad \/ BasicSidebar \/ BasicFilter \/ BasicRerun

\* the first run down to tab 5
NextReport ==
  \/ ReadFile \/ CheckColumns \/ DateStep \/ MarginStep \/ CoerceStep
  \/ SidebarDefault \/ Filter \/ LossSummary \/ RenderTabs

\* the first run down to the simulator
NextSim ==
  \/ ReadFile \/ CheckColumns \/ DateStep \/ MarginStep \/ CoerceStep
  \/ SidebarDefault \/ Filter \/ LossSummary \/ RenderTabs
  \/ ModelPrepare \/ Train \/ Simulate

\* runs of either page with replacements of the source files between them
NextCache ==
  \/ ReadFile \/ CheckColumns \/ DateStep \/ MarginStep \/ CoerceStep
  \/ LoadCached \/ SidebarDefault \/ Filter \/ LossSummary \/ RenderTabs
  \/ ModelPrepare \/ Train \/ Rerun
  \/ BasicLoad \/ BasicSidebar \/ BasicFilter \/ BasicKpi \/ BasicTabs \/ BasicRerun
  \/ ReplaceFile

\* the runs of dashboard.py
NextBasic ==
  BasicLoad \/ BasicSidebar \/ BasicFilter \/ BasicKpi \/ BasicTabs \/ BasicRerun

Spec == Init /\ [][Next]_vars

SpecCache == InitCache /\ [][NextCache]_vars

SpecBasic == InitBasic /\ [][NextBasic]_vars

SpecReport == InitReport /\ [][NextReport]_vars

SpecSim == InitSim /\ [][NextSim]_vars

SpecLoad == InitLoad /\ [][NextLoad]_vars

----------------------------------------------------------------------------
(* Properties of the filter step (specification Spec) *)

AfterFilter == MainPcs \ {"sidebar", "filter"}

\* the condition the filter contract puts on one row
Selected(r) ==
  /\ \A d \in Range(Dims) : sel[d] # {} => (d \in df.cols /\ r.c[d] \in sel[d])
  /\ profit_filter = "profit" => GtZero(r.c["Profit"])
  /\ profit_filter = "loss" => LtZero(r.c["Profit"])

\* C1: the filtered view is exactly the loaded rows that are members of
\* every non-empty selection and satisfy the profit-sign mode.
C1_FilterContract ==
  pc \in AfterFilter => filtered_df.rows = SelectSeq(df.rows, Selected)

C1_Witness ==
  /\ pc = "summary"
  /\ profit_filter = "loss"
  /\ sel["Region"] # {} /\ sel["Year"] = {}
  /\ Len0(filtered_df) < Len0(df)

\* C2: with all offered values of a dimension selected, the filtered view is
\* the one an empty selection on that dimension gives.
C2_EmptyEqualsAll ==
  pc \in AfterFilter =>
    \A d \in Range(Dims) :
      sel[d] = Options(df, d) =>
        filtered_df = FilterView(df, [sel EXCEPT ![d] = {}], profit_filter)

RowSet(t) == Range(t.rows)

\* C3 as stated, for both variants: the filtered rows are a strict subset of the loaded rows,
\* with the same columns.
C3_StrictSubset ==
  pc \in AfterFilter \cup {"b_filtered"} =>
    /\ RowSet(filtered_df) \subseteq RowSet(df)
    /\ RowSet(filtered_df) # RowSet(df)
    /\ filtered_df.cols = df.cols

\* C3 amended, for both variants: the filtered rows are a subset of the loaded rows (all of
\* them when nothing is excluded), in the loaded order, with the same columns.
C3_Subset ==
  pc \in AfterFilter \cup {"b_filtered"} =>
    /\ RowSet(filtered_df) \subseteq RowSet(df)
    /\ filtered_df.rows = SelectSeq(df.rows, LAMBDA r : r \in RowSet(filtered_df))
    /\ filtered_df.cols = df.cols
    /\ \A k \in 1..Len0(filtered_df) : DOMAIN filtered_df.rows[k].c = df.cols

C3_Witness ==
  /\ pc = "summary"
  /\ sel["Region"] # {} /\ sel["Category"] # {}
  /\ Len0(filtered_df) < Len0(df)

\* C4: while main runs, the loaded table is the table load_data returned.
C4_LoadedUnchanged == pc \in MainPcs => df = cache.value

C4_Witness ==
  /\ pc = "done"
  /\ Len0(filtered_df) < Len0(df)
  /\ "Profit_Rate" \in model_df.cols
  /\ total_loss # Num(0)

----------------------------------------------------------------------------
(* Properties of load_data (specification SpecLoad) *)

\* the file load_data reads, and whether it gets as far as a table
Source == fs[file_options[IF FirstReadable(fs) = 0 THEN 1 ELSE FirstReadable(fs)]]

Readable == FirstReadable(fs) # 0 /\ Source.kind = "csv"

Loaded == pc = "sidebar"

\* the cell of the source file a loaded row comes from
RawCell(r, col) == Source.rows[r.i + 1][col]

LoadedRows == Range(df.rows)

\* C5: every Profit_Margin of the returned table is a finite number within
\* [-1000, 1000] percent.
C5_MarginFinite ==
  Loaded =>
    \A r \in LoadedRows :
      /\ IsFinite(r.c["Profit_Margin"])
      /\ r.c["Profit_Margin"].v >= ClipLo * Scale
      /\ r.c["Profit_Margin"].v <= ClipHi * Scale

\* Profit / Sales * 100 rounded to two decimals and clamped, for finite values
ExpectedMargin(p, sl) ==
  IF sl = 0 THEN 0
  ELSE LET m == RoundDiv(p * 100 * Scale, sl)
       IN  IF m < ClipLo * Scale THEN ClipLo * Scale
           ELSE IF m > ClipHi * Scale THEN ClipHi * Scale ELSE m

\* C6: row by row, Profit_Margin is 0 for Sales = 0 and otherwise the rounded
\* and clamped Profit / Sales * 100 of that row's Sales and Profit (stated
\* for the rows whose Sales and Profit are finite).
C6_MarginPerRow ==
  Loaded =>
    \A r \in LoadedRows :
      (IsFinite(r.c["Sales"]) /\ IsFinite(r.c["Profit"])) =>
        r.c["Profit_Margin"] = Num(ExpectedMargin(r.c["Profit"].v, r.c["Sales"].v))

\* C7: load_data returns a table with derived fields and at least one row,
\* or it stops; it stops when no candidate is readable.
C7_TableOrFailure ==
  /\ Loaded => (DerivedColumns \subseteq df.cols /\ Len0(df) >= 1)
  /\ (FirstReadable(fs) = 0 /\ pc # "start") => (pc = "stopped" /\ err = "FileNotReadable")

\* C8: a file that lacks required columns stops load_data at the column
\* check, the error names exactly the lacking columns, and the table is
\* still as read: no date is converted and no derived column exists.
C8_SchemaMismatch ==
  (Readable /\ pc # "start" /\ ~(Range(required_columns) \subseteq Source.cols)) =>
    /\ pc \in {"check", "stopped"}
    /\ pc = "stopped" =>
         /\ err = "SchemaMismatch"
         /\ Range(errCols) = Range(required_columns) \ Source.cols
         /\ Len(errCols) = Cardinality(Range(errCols))
    /\ df = read_csv(Source)
    /\ df.cols \cap DerivedColumns = {}

C8_Witness ==
  /\ pc = "stopped"
  /\ err = "SchemaMismatch"
  /\ Len(errCols) = 2
  /\ Len0(df) > 0

\* C9: every present numeric column of the returned table holds a number in
\* each row, the source value when that parses as a number and 0 otherwise;
\* a readable file with the required columns is always loaded.
C9_NumericCoercion ==
  /\ Loaded =>
       \A r \in LoadedRows : \A col \in Range(numeric_columns) \cap df.cols :
         /\ IsNumber(r.c[col])
         /\ r.c[col] = IF IsNumber(RawCell(r, col)) THEN RawCell(r, col) ELSE Num(0)
  /\ (Readable /\ Range(required_columns) \subseteq Source.cols) => pc # "stopped"

C9_Witness ==
  /\ Loaded
  /\ \E r \in LoadedRows :
       /\ "Quantity" \in df.cols
       /\ RawCell(r, "Quantity").t = "str" /\ r.c["Quantity"] = Num(0)
       /\ RawCell(r, "Discount").t = "num" /\ r.c["Discount"] = RawCell(r, "Discount")
  /\ \E r \in LoadedRows : RawCell(r, "Sales").t = "nan" \/ RawCell(r, "Profit").t = "nan"

\* C10: the returned rows are exactly the source rows whose Order Date
\* parses, and each holds that date.
C10_OrderDates ==
  Loaded =>
    /\ \A r \in LoadedRows : r.c["Order Date"].t = "date"
    /\ {r.i : r \in LoadedRows} =
         {k - 1 : k \in {j \in 1..Len(Source.rows) : Source.rows[j]["Order Date"].t = "date"}}
    /\ \A r \in LoadedRows : r.c["Order Date"] = RawCell(r, "Order Date")

C10_Witness ==
  /\ Loaded
  /\ Len0(df) >= 1
  /\ Len0(df) < Len(Source.rows)

\* C11: Shipping_Days of every returned row is a number that is never below
\* 0, whatever the order and ship dates are.
C11_ShippingDaysNonNegative ==
  Loaded =>
    \A r \in LoadedRows :
      /\ r.c["Shipping_Days"].t = "num"
      /\ r.c["Shipping_Days"].v >= 0

----------------------------------------------------------------------------
(* Properties of the page below the filter (specification Spec) *)

\* the positions of main at which tabs 2 to 5 are on the page
Rendered == {"model", "train", "simulate", "done"}

\* C12: when the selections exclude every row, main shows the guidance
\* message and returns without an error; no KPI, chart or table is computed
\* and no model is prepared or fitted.
C12_EmptyViewEnds ==
  /\ (pc \in AfterFilter /\ Len0(filtered_df) = 0) => pc = "empty"
  /\ pc = "empty" =>
       /\ Len0(filtered_df) = 0
       /\ page = [NoPage EXCEPT !.notice = "empty_filter"]
       /\ err = "none"
       /\ total_loss = Num(0)
       /\ model_df = NoTable
       /\ sim = NoSim

C12_Witness ==
  /\ pc = "empty"
  /\ Len0(df) = MaxRows
  /\ profit_filter = "all"
  /\ page.notice = "empty_filter"

\* what the page shows for one block when only its own computation counts
OwnOutcome(b) ==
  IF Compute(filtered_df, b) = "raise" THEN "error" ELSE Compute(filtered_df, b)

RECURSIVE AbsProfitFrom(_, _, _, _)
\* the sum of |Profit| over the rows of f, from row j on, that are loss rows
\* of group k
AbsProfitFrom(f, key, k, j) ==
  IF j > Len0(f) THEN Num(0)
  ELSE FAdd(IF LtZero(f.rows[j].c["Profit"]) /\ f.rows[j].c[key] = k
            THEN FAbs(f.rows[j].c["Profit"]) ELSE Num(0),
            AbsProfitFrom(f, key, k, j + 1))

\* the loss aggregate agg has one entry per group of the loss rows of the
\* view, the sum of |Profit| of the loss rows of the group, never negative
LossAggregateOk(key, agg) ==
  /\ DOMAIN agg = {filtered_df.rows[j].c[key] :
                     j \in {i \in 1..Len0(filtered_df) :
                              /\ LtZero(filtered_df.rows[i].c["Profit"])
                              /\ notna(filtered_df.rows[i].c[key])}}
  /\ \A k \in DOMAIN agg :
       /\ agg[k] = AbsProfitFrom(filtered_df, key, k, 1)
       /\ IsNumber(agg[k]) /\ ~LtZero(agg[k])

\* C14: the loss aggregates per region and per category are computed over
\* the Profit < 0 rows of the filtered view only, are non-negative, and
\* equal the sum of |Profit| of the loss rows of the group.
C14_LossAggregates ==
  pc \in Rendered =>
    /\ LossAggregateOk("Region", page.region_loss)
    /\ LossAggregateOk("Category", page.category_loss)

C14_Witness ==
  /\ pc \in Rendered
  /\ \E k \in DOMAIN page.region_loss :
       /\ \E j \in 1..Len0(filtered_df) :
            /\ filtered_df.rows[j].c["Region"] = k
            /\ GtZero(filtered_df.rows[j].c["Profit"])
       /\ GtZero(page.region_loss[k])

\* the source file is the example table: one row of Sales 100, Profit -20,
\* Region West, Category Furniture, Discount 0.5 and Order Date 2017-03-01
ExampleLoaded ==
  /\ Readable
  /\ ExampleColumns \subseteq Source.cols
  /\ Len(Source.rows) = 1
  /\ \A x \in ExampleColumns : Source.rows[1][x] = ExampleRow[x]

\* C21: on the example table, with Region in {West} and the loss-only mode,
\* the filtered view holds exactly the one row of the table with its
\* values, and the loss aggregate of region West is 20.
C21_ExampleScenario ==
  (ExampleLoaded /\ sel["Region"] = {Str("West")} /\ profit_filter = "loss") =>
    /\ pc \in AfterFilter =>
         /\ pc # "empty"
         /\ filtered_df.rows = df.rows
         /\ Len0(filtered_df) = 1
         /\ filtered_df.rows[1].c["Sales"] = Num(100)
         /\ filtered_df.rows[1].c["Profit"] = Num(-20)
         /\ filtered_df.rows[1].c["Region"] = Str("West")
         /\ filtered_df.rows[1].c["Category"] = Str("Furniture")
         /\ filtered_df.rows[1].c["Discount"] = Num(Scale \div 2)
         /\ filtered_df.rows[1].c["Order Date"] = Date(DayOf(2017, 3, 1))
    /\ pc \in Rendered =>
         /\ DOMAIN page.region_loss = {Str("West")}
         /\ page.region_loss[Str("West")] = Num(20)

C21_Witness ==
  /\ ExampleLoaded
  /\ Source.cols = ExampleColumns
  /\ sel["Region"] = {Str("West")} /\ sel["Year"] = {} /\ sel["Category"] = {Str("Furniture")}
  /\ profit_filter = "loss"
  /\ pc = "done"
  /\ page.status["region_loss"] = "chart"
  /\ page.region_loss[Str("West")] = Num(20)

\* the full table can be trained on: it has the product column and enough
\* rows with finite features
Trainable == "Product ID" \in df.cols /\ ~TrainRaises(ModelDf(df))

----------------------------------------------------------------------------
(* Properties of the top products and of the discount bins (specification *)
(* SpecReport)                                                             *)

\* the products of the filtered view
Products == Options(filtered_df, "Product Name")

RECURSIVE SalesFrom(_, _)
\* the summed Sales of the rows of product p of the filtered view, from
\* row j on
SalesFrom(p, j) ==
  IF j > Len0(filtered_df) THEN Num(0)
  ELSE FAdd(IF filtered_df.rows[j].c["Product Name"] = p
            THEN filtered_df.rows[j].c["Sales"] ELSE Num(0),
            SalesFrom(p, j + 1))

\* C15: the top products are at most N = 10 different products of the
\* filtered view, each with its summed Sales, and fewer than N products of
\* the view have larger summed Sales than a returned one.
C15_TopProducts ==
  pc \in Rendered =>
    /\ Len(page.top_products) <= TopN
    /\ \A i \in 1..Len(page.top_products) :
         /\ page.top_products[i].name \in Products
         /\ page.top_products[i].Sales = SalesFrom(page.top_products[i].name, 1)
         /\ \A j \in 1..Len(page.top_products) :
              page.top_products[j].name = page.top_products[i].name => j = i
         /\ Cardinality({q \in Products :
                           FGt(SalesFrom(q, 1), page.top_products[i].Sales)}) < TopN

C15_Witness ==
  /\ pc \in Rendered
  /\ Cardinality(Products) > TopN
  /\ Len(page.top_products) = TopN
  /\ \E i \in 1..TopN : page.top_products[i].Sales = Num(30)
  /\ \E q \in Products :
       /\ \A i \in 1..TopN : page.top_products[i].name # q
       /\ SalesFrom(q, 1) = Num(10)

\* the position of the first row of product p in the filtered view
FirstRow(p) ==
  CHOOSE j \in 1..Len0(filtered_df) :
    /\ filtered_df.rows[j].c["Product Name"] = p
    /\ \A i \in 1..(j - 1) : filtered_df.rows[i].c["Product Name"] # p

\* the names of the top products
TopNames == {page.top_products[i].name : i \in 1..Len(page.top_products)}

\* the position of product p among the top products
TopPosition(p) == CHOOSE i \in 1..Len(page.top_products) : page.top_products[i].name = p

\* C16: products that tie on summed Sales are taken in first-encountered
\* order: of two tied products, the one whose first row comes earlier in
\* the filtered view is kept if the other is, and is listed before it.
C16_FirstEncountered ==
  pc \in Rendered =>
    \A p, q \in Products :
      (SalesFrom(p, 1) = SalesFrom(q, 1) /\ FirstRow(p) < FirstRow(q) /\ q \in TopNames) =>
        (p \in TopNames /\ TopPosition(p) < TopPosition(q))

\* the number of rows of the filtered view in discount bin k
BinSize(k) == Len0(BinRows(valid_discount(filtered_df), k))

\* C17: a discount bin with fewer than 5 rows of the filtered view is never
\* shown with a numeric average Profit_Margin; only bins of 5 rows or more
\* get an average.
C17_SmallBinsInsufficient ==
  (pc \in Rendered /\ page.discount_profit.kind = "chart") =>
    \A k \in 1..BinCount :
      IsNumber(page.discount_profit.bins[k]) => BinSize(k) >= MinDiscountRows

----------------------------------------------------------------------------
(* Properties of the discount simulator (specification SpecSim) *)

\* a simulation has run
Simulated == pc = "done" /\ sim.choice # <<>>

\* the rows of the full table that match the selected combination
Matching ==
  {j \in 1..Len0(df) :
     /\ EqCell(df.rows[j].c["Category"], sim.choice[1])
     /\ EqCell(df.rows[j].c["Sub-Category"], sim.choice[2])
     /\ EqCell(df.rows[j].c["Segment"], sim.choice[3])}

\* C18: when no row of the full table matches the selected category,
\* sub-category and segment, the simulator tells that there is no data and
\* makes no synthetic row, no prediction and no recommendation for any
\* grid point; predictions come only with a sample of at least one row.
C18_NoDataNoPrediction ==
  Simulated =>
    /\ Matching = {} =>
         /\ sim.notice = "no_data"
         /\ sim.rows = <<>> /\ sim.signs = <<>> /\ sim.margins = <<>>
         /\ sim.recommendation.kind = "none"
    /\ sim.signs # <<>> => (sim.sample = Cardinality(Matching) /\ sim.sample > 0)

C18_Witness ==
  /\ Simulated
  /\ Matching = {}
  /\ \A i \in 1..3 : sim.choice[i].t = "str"
  /\ sim.notice = "no_data"

\* the grid points whose predicted sign is profit
Profitable == {k \in 1..Len(test_discounts) : sim.signs[k] = "profit"}

\* C19: with a profitable grid point the simulator recommends the largest
\* profitable grid value as maximum discount; it tells that no discount is
\* profitable exactly when no grid point is.
C19_RecommendedMaximum ==
  (Simulated /\ sim.signs # <<>>) =>
    IF Profitable # {}
    THEN /\ sim.recommendation.kind = "maximum"
         /\ sim.recommendation.discount = test_discounts[MaxOf(Profitable)]
    ELSE sim.recommendation.kind = "warning"

\* a row of the selected values
ChoiceRow ==
  [c |-> [x \in Range(Dummied) |->
            IF x = "Category" THEN sim.choice[1]
            ELSE IF x = "Sub-Category" THEN sim.choice[2] ELSE sim.choice[3]]]

\* C20: the synthetic feature row of every grid point is on the training
\* columns in their order, and each of its dummy columns holds what a
\* training row of the selected values holds: 1 in the column of a
\* selected value, 0 in every other one.
C20_SyntheticRowEncoding ==
  (Simulated /\ sim.rows # <<>>) =>
    \A g \in 1..Len(test_discounts) :
      /\ Len(sim.rows[g]) = Len(sim.columns)
      /\ \A i \in 1..Len(sim.columns) :
           notna(sim.columns[i].val) =>
             sim.rows[g][i] = FeatureCell(sim.columns[i], ChoiceRow)

----------------------------------------------------------------------------
(* Properties of the cached table (specification SpecCache) *)

\* the table load_data of dashboard_simple.py builds from a CSV content
LoadData(content) == CoerceNumeric(ProfitMargin(DateFeatures(read_csv(content))))

\* the positions of a run of either page between load_data and its end
Working == (MainPcs \ Idle) \cup {"b_sidebar", "b_filter"}

\* C23: over any sequence of runs and replacements of the source file, the
\* table a run works on is the one built from the current content of the
\* source file: a run that follows a replacement works on a rebuilt table.
C23_TableIsCurrent ==
  pc \in Working =>
    IF pc \in MainPcs
    THEN Readable /\ df = LoadData(Source)
    ELSE fs[basic_file].kind = "csv" /\ df = BasicFeatures(read_csv(fs[basic_file]))

----------------------------------------------------------------------------
(* Properties of the basic variant (specification SpecBasic) *)

\* the three dimensions of the sidebar of dashboard.py
BasicDims == {"Year", "Region", "Category"}

\* the condition of the basic filter on one row
BasicSelected(r) == \A d \in BasicDims : r.c[d] \in sel[d]

\* the columns the script of dashboard.py reads below the filter
BasicColumns == TableColumns \cup {"Segment", "Order ID"}

\* the script of dashboard.py is below the filter with a view of no row
EmptyBasicView ==
  /\ pc \in {"b_filtered", "b_tabs", "b_done", "b_crashed"}
  /\ filtered_df.cols # {}
  /\ Len0(filtered_df) = 0

\* C24: in dashboard.py the filtered view is exactly the rows whose Year,
\* Region and Category are each in the selected set; an empty selection on
\* one dimension gives a view of no row, and on a view of no row the script
\* goes on as on any other: the KPIs are computed (sums and count 0, the
\* mean no number), every chart and table is drawn, and the script stops
\* only for a column or a file of its own, never for the view.
C24_BasicFilter ==
  /\ pc \in {"b_filtered", "b_tabs", "b_done"} =>
       /\ filtered_df.rows = SelectSeq(df.rows, BasicSelected)
       /\ (\E d \in BasicDims : sel[d] = {}) => Len0(filtered_df) = 0
  /\ (EmptyBasicView /\ pc \in {"b_tabs", "b_done"}) =>
       /\ page.basic["kpi"] = "chart"
       /\ page.total_sales = Num(0) /\ page.total_profit = Num(0)
       /\ page.total_orders = 0 /\ page.avg_order_value = NaN
  /\ (EmptyBasicView /\ pc = "b_done") =>
       \A b \in Range(BasicBlocks) \ {"rfm", "forecast"} : page.basic[b] = "chart"
  /\ (EmptyBasicView /\ pc = "b_crashed") =>
       \/ ~(BasicColumns \subseteq filtered_df.cols)
       \/ page.basic["forecast"] = "raise"

C24_Witness ==
  /\ pc = "b_done"
  /\ Len0(df) = MaxRows
  /\ sel["Region"] = {} /\ sel["Year"] # {} /\ sel["Category"] # {}
  /\ Len0(filtered_df) = 0
  /\ page.avg_order_value = NaN
  /\ page.basic["profitability"] = "chart"
  /\ page.basic["data_table"] = "chart"

----------------------------------------------------------------------------
(* Properties of the profit modes (specification Spec) *)

\* the rows of the view that the set selections of the run give in profit
\* mode m
ViewRows(m) == RowSet(FilterView(df, sel, m))

\* the positions of main below the loss summary
Summarised == AfterFilter \ {"summary", "empty"}

\* C25: for the set selections of a run, the profit-only and the loss-only
\* view are disjoint subsets of the view of mode all, and the rows of that
\* view in neither are exactly its rows of Profit = 0; in profit-only mode
\* the view has no loss row and the total loss is 0, in loss-only mode
\* every row of the view is a loss row.
C25_ProfitModes ==
  pc \in AfterFilter =>
    LET P == ViewRows("profit")
        L == ViewRows("loss")
        A == ViewRows("all")
    IN  /\ P \cap L = {}
        /\ P \subseteq A
        /\ L \subseteq A
        /\ A \ (P \cup L) = {r \in A : r.c["Profit"] = Num(0)}
        /\ RowSet(filtered_df) = (IF profit_filter = "profit" THEN P
                                  ELSE IF profit_filter = "loss" THEN L ELSE A)
        /\ profit_filter = "profit" =>
             /\ Len0(loss_orders(filtered_df)) = 0
             /\ total_loss = Num(0)
        /\ profit_filter = "loss" => loss_orders(filtered_df) = filtered_df
        /\ (profit_filter = "loss" /\ pc \in Summarised) =>
             total_loss = FAbs(SumFrom(filtered_df, "Profit", 1))

C25_Witness ==
  /\ pc \in Summarised
  /\ profit_filter = "profit"
  /\ Len0(filtered_df) > 0
  /\ \E r \in ViewRows("all") : r.c["Profit"] = Num(0)
  /\ sel["Year"] # {}

====
